---------------------------- MODULE Spec2Model ----------------------------
(***************************************************************************)
(* Word MCP server: the fill_template, edit_document and get_context tool  *)
(* handlers running against the OneDrive project folder of one project.    *)
(*                                                                         *)
(* A handler is a sequence of awaited GraphClient calls; each awaited call *)
(* is one step of the invocation, so two invocations interleave at their   *)
(* storage calls.  The storage keeps the version documents of the project  *)
(* folder and the Memory/ records.  The text of a run is a sequence of     *)
(* words; file names, and the texts the utility functions are called on    *)
(* by themselves (UtilSpec), are sequences of characters.  The start of   *)
(* the process (StartSpec) and the token cache of a GraphClient instance   *)
(* (ClientSpec) are specifications of their own.                           *)
(*                                                                         *)
(* The folder is kept by OneDrive and outlives the server process: when    *)
(* the server starts it holds a gap-free history of 0..MaxInit versions,   *)
(* each with its Memory record, and possibly a file of another family.     *)
(* Every storage request either fails (transport error, non-2xx answer)    *)
(* or is answered from the folder's content.  A call whose method or       *)
(* keyword arguments GraphClient does not define raises before a request   *)
(* is sent.                                                                *)
(***************************************************************************)
EXTENDS Integers, Sequences, FiniteSets, TLC

VARIABLES
    docs,        \* project folder: file name -> bytes of the family's .docx files
    mem,         \* Memory/ folder: file name -> text of the .json records
    others,      \* files of other families lying in the project folder
    pc,          \* per invocation slot: the call the handler is about to await
    loc,         \* per invocation slot: arguments and local variables of the handler
    result,      \* per invocation slot: what the finished handler returned or raised
    log,         \* per invocation slot: the storage requests issued so far
    snap,        \* per invocation slot: the storage as it was when the handler started
    lastPut,     \* file name -> the slot whose document upload was stored last
    nops,        \* number of tool invocations started
    calc         \* the part looked at on its own: a call of a utility function with its
                 \* arguments and result, the starting process, or a GraphClient instance

vars == <<docs, mem, others, pc, loc, result, log, snap, lastPut, nops, calc>>

---------------------------------------------------------------------------
(* Bounds *)

MaxInit == 1     \* versions already in the folder when the server starts
MaxOps == 2      \* tool invocations per run

Procs == {1, 2}  \* invocation slots: two tool calls can be in flight together

---------------------------------------------------------------------------
(* Texts, documents, contexts *)

\* A run's text is a sequence of words; a paragraph is a sequence of runs.
\* A document has body paragraphs and table cells, each cell holding one
\* paragraph.  row_cells is what "for row in table.rows: for cell in row.cells"
\* yields over all tables: the cells by index, a merged cell once for every grid
\* column it spans.  saved_at is the time the zip container of the bytes was
\* written at (each member of the container carries it).
Para1 == << <<"Dear", "Ann">> >>
Para2 == << <<"Dear">>, <<"Ann">> >>
DocOneRun == [body |-> <<Para1>>, cells |-> <<>>, row_cells |-> <<>>, saved_at |-> 0]
DocInCell == [body |-> <<Para2>>, cells |-> <<Para1>>, row_cells |-> <<1>>, saved_at |-> 0]
NoBytes == [body |-> <<>>, cells |-> <<>>, row_cells |-> <<>>, saved_at |-> 0]

\* Readings of the clock: the folder's documents were written at the earlier
\* one, the server's handlers run at the later one.
Clock == {0, 1}
Now == CHOOSE t \in Clock : \A u \in Clock : u <= t
InitDocs == {DocOneRun, DocInCell}

FindTexts == {<<"Ann">>, <<"Bob">>}
ReplaceTexts == {<<"Bob">>, <<"Cid">>}

EmptyCtx == <<>>
CtxName == [k \in {"name"} |-> "Ann"]
CtxDate == [k \in {"date"} |-> "Jan"]
CtxBoth == [k \in {"name", "date"} |-> IF k = "name" THEN "Bob" ELSE "Jan"]
Replacements == {CtxName, CtxDate}
InitContexts == {EmptyCtx, CtxName}

\* The template: placeholder tags are the words "{{name}}" and "{{date}}".
TagKey == [t \in {"{{name}}", "{{date}}"} |-> IF t = "{{name}}" THEN "name" ELSE "date"]
TemplateBytes ==
    [body |-> << << <<"Dear", "{{name}}">>, <<"{{date}}">> >> >>, cells |-> <<>>,
     row_cells |-> <<>>, saved_at |-> 0]

---------------------------------------------------------------------------
(* Strings *)

RECURSIVE Flatten(_)
\* para.text: the texts of the runs, joined
Flatten(runs) == IF runs = <<>> THEN <<>> ELSE Head(runs) \o Flatten(Tail(runs))

\* sub in s
Contains(s, sub) ==
    \E i \in 1..(Len(s) + 1) :
        /\ i + Len(sub) - 1 <= Len(s)
        /\ SubSeq(s, i, i + Len(sub) - 1) = sub

RECURSIVE Intersperse(_, _)
Intersperse(s, new) ==
    IF s = <<>> THEN new ELSE new \o <<Head(s)>> \o Intersperse(Tail(s), new)

\* s.find(sub): the first position sub occurs at, 0 for none
Find(s, sub) ==
    LET at == {i \in 1..(Len(s) - Len(sub) + 1) :
                  s[i] = sub[1] /\ SubSeq(s, i, i + Len(sub) - 1) = sub}
    IN  IF at = {} THEN 0 ELSE CHOOSE i \in at : \A j \in at : i <= j

RECURSIVE ReplaceFrom(_, _, _)
ReplaceFrom(s, old, new) ==
    IF Find(s, old) = 0 THEN s
    ELSE SubSeq(s, 1, Find(s, old) - 1) \o new
         \o ReplaceFrom(SubSeq(s, Find(s, old) + Len(old), Len(s)), old, new)

\* s.replace(old, new): every non-overlapping occurrence, left to right
StrReplace(s, old, new) ==
    IF old = <<>> THEN Intersperse(s, new) ELSE ReplaceFrom(s, old, new)

---------------------------------------------------------------------------
(* docx_utils: rendering and find & replace *)

RenderRun(run, context) ==
    Flatten([i \in 1..Len(run) |->
        IF run[i] \in DOMAIN TagKey
        THEN IF TagKey[run[i]] \in DOMAIN context
             THEN <<context[TagKey[run[i]]]>> ELSE <<>>
        ELSE <<run[i]>>])

RenderParas(paras, context) ==
    [i \in 1..Len(paras) |->
        [j \in 1..Len(paras[i]) |-> RenderRun(paras[i][j], context)]]

\* Document(io.BytesIO(docx_bytes)): the content of the container
Document(docx_bytes) ==
    [body |-> docx_bytes.body, cells |-> docx_bytes.cells, row_cells |-> docx_bytes.row_cells]

\* a save that loses the tables
SaveBodyOnly(doc, now) ==
    [body |-> doc.body, cells |-> <<>>, row_cells |-> <<>>, saved_at |-> now]

\* doc.save(output); output.read(): a container written anew at the time of the call
Save(doc, now) ==
    [body |-> doc.body, cells |-> doc.cells, row_cells |-> doc.row_cells, saved_at |-> now]

render_template(template_bytes, context, now) ==
    Save([body |-> RenderParas(template_bytes.body, context),
          cells |-> RenderParas(template_bytes.cells, context),
          row_cells |-> template_bytes.row_cells], now)

\* One paragraph of find_and_replace: the runs after the pass.
ReplaceInPara(para, find_text, replace_text) ==
    IF Contains(Flatten(para), find_text)
    THEN [j \in 1..Len(para) |->
            IF Contains(para[j], find_text)
            THEN StrReplace(para[j], find_text, replace_text)
            ELSE para[j]]
    ELSE para

\* One paragraph of find_and_replace: the runs it counts.
CountInPara(para, find_text) ==
    IF Contains(Flatten(para), find_text)
    THEN Cardinality({j \in 1..Len(para) : Contains(para[j], find_text)})
    ELSE 0

RECURSIVE SumCounts(_, _)
SumCounts(paras, find_text) ==
    IF paras = <<>> THEN 0
    ELSE CountInPara(Head(paras), find_text) + SumCounts(Tail(paras), find_text)

RECURSIVE VisitCells(_, _, _, _)
\* The table loop: the cells are visited in the order row.cells yields them and
\* changed in place, so a later visit of a cell sees what an earlier one wrote.
VisitCells(cells, visits, find_text, replace_text) ==
    IF visits = <<>> THEN [cells |-> cells, count |-> 0]
    ELSE LET i == Head(visits)
             rest == VisitCells(
                 [cells EXCEPT ![i] = ReplaceInPara(cells[i], find_text, replace_text)],
                 Tail(visits), find_text, replace_text)
         IN  [cells |-> rest.cells,
              count |-> CountInPara(cells[i], find_text) + rest.count]

\* find_and_replace returns (updated bytes, replacements_made); now is the clock
\* the save reads
find_and_replace(docx_bytes, find_text, replace_text, now) ==
    LET doc == Document(docx_bytes)
        tables == VisitCells(doc.cells, doc.row_cells, find_text, replace_text)
    IN  [bytes |->
            Save([body |-> [i \in 1..Len(doc.body) |->
                              ReplaceInPara(doc.body[i], find_text, replace_text)],
                  cells |-> tables.cells,
                  row_cells |-> doc.row_cells], now),
         replacements_made |-> SumCounts(doc.body, find_text) + tables.count]

---------------------------------------------------------------------------
(* docx_utils: file names and versions *)

\* A file name is a string: a sequence of characters.
DigitChars == <<"0", "1", "2", "3", "4", "5", "6", "7", "8", "9">>
UpperChars == <<"A", "B", "C", "D", "E", "F", "G", "H", "I", "J", "K", "L", "M",
                "N", "O", "P", "Q", "R", "S", "T", "U", "V", "W", "X", "Y", "Z">>
LowerChars == <<"a", "b", "c", "d", "e", "f", "g", "h", "i", "j", "k", "l", "m",
                "n", "o", "p", "q", "r", "s", "t", "u", "v", "w", "x", "y", "z">>

DigitValue == [c \in {DigitChars[i] : i \in DOMAIN DigitChars} |->
                  (CHOOSE i \in DOMAIN DigitChars : DigitChars[i] = c) - 1]
LowerOf == [c \in {UpperChars[i] : i \in DOMAIN UpperChars} |->
               LowerChars[CHOOSE i \in DOMAIN UpperChars : UpperChars[i] = c]]

\* \d
IsDigit(c) == c \in DOMAIN DigitValue

RECURSIVE Str(_)
\* str(n) of a natural number
Str(n) == IF n < 10 THEN <<DigitChars[n + 1]>>
          ELSE Str(n \div 10) \o <<DigitChars[(n % 10) + 1]>>

\* str(n) cut to its last two digits
zfill_cut(s, width) ==
    IF Len(s) >= width THEN SubSeq(s, Len(s) - width + 1, Len(s))
    ELSE [i \in 1..(width - Len(s)) |-> "0"] \o s

\* s.zfill(width): zeros on the left up to the width, never a cut
zfill(s, width) ==
    IF Len(s) >= width THEN s ELSE [i \in 1..(width - Len(s)) |-> "0"] \o s

RECURSIVE IntOf(_)
\* int(s) of a string of digits
IntOf(s) ==
    IF s = <<>> THEN 0
    ELSE IntOf(SubSeq(s, 1, Len(s) - 1)) * 10 + DigitValue[s[Len(s)]]

LowerChar(c) == IF c \in DOMAIN LowerOf THEN LowerOf[c] ELSE c

\* s.lower()
Lower(s) == [i \in DOMAIN s |-> LowerChar(s[i])]

\* s.endswith(suffix)
EndsWith(s, suffix) ==
    /\ Len(s) >= Len(suffix)
    /\ SubSeq(s, Len(s) - Len(suffix) + 1, Len(s)) = suffix

SufV == <<"_", "v">>
ExtDocx == <<".", "d", "o", "c", "x">>
ExtJson == <<".", "j", "s", "o", "n">>

\* The file name <stem>_v<NN><ext>
FileName(stem, ver, ext) == stem \o SufV \o zfill(Str(ver), 2) \o ext
\* None
NoFile == <<"None">>

\* re.search(r'_v(\d+)\.docx$', filename, re.IGNORECASE): the positions where
\* "_v", one or more digits and ".docx" run to the end of the name (at most one).
SuffixMatches(filename) ==
    IF \/ Len(filename) < Len(ExtDocx)
       \/ Lower(SubSeq(filename, Len(filename) - Len(ExtDocx) + 1, Len(filename))) # ExtDocx
    THEN {}
    ELSE {i \in 1..(Len(filename) - Len(ExtDocx) - 2) :
             /\ filename[i] = "_"
             /\ LowerChar(filename[i + 1]) = "v"
             /\ \A j \in (i + 2)..(Len(filename) - Len(ExtDocx)) : IsDigit(filename[j])}

\* int(match.group(1)) if match else 0
get_version_number(filename) ==
    LET match == SuffixMatches(filename)
    IN  IF match = {} THEN 0
        ELSE IntOf(SubSeq(filename, (CHOOSE i \in match : TRUE) + 2,
                          Len(filename) - Len(ExtDocx)))

\* the family name cut at the first "_v" of the name
get_family_name_first(filename) ==
    LET cuts == {i \in 1..(Len(filename) - 1) : Lower(SubSeq(filename, i, i + 1)) = SufV}
    IN  IF SuffixMatches(filename) = {} THEN filename
        ELSE SubSeq(filename, 1, (CHOOSE i \in cuts : \A j \in cuts : i <= j) - 1)

\* re.sub(r'_v\d+\.docx$', '', filename, flags=re.IGNORECASE)
get_family_name(filename) ==
    LET match == SuffixMatches(filename)
    IN  IF match = {} THEN filename
        ELSE SubSeq(filename, 1, (CHOOSE i \in match : TRUE) - 1)

\* the family filter without the .docx test
PassesFilterAnyExt(family_name, f) == Lower(get_family_name(f)) = Lower(family_name)

\* get_family_name(f).lower() == family_name.lower() and f.endswith(".docx")
PassesFilter(family_name, f) ==
    /\ Lower(get_family_name(f)) = Lower(family_name)
    /\ EndsWith(f, ExtDocx)

\* family_files = [f for f in existing_files if ...]
FamilyFiles(family_name, existing_files) ==
    LET Keep(f) == PassesFilter(family_name, f)
    IN  SelectSeq(existing_files, Keep)

RECURSIVE MaxFrom(_, _)
MaxFrom(files, best) ==
    IF files = <<>> THEN best
    ELSE MaxFrom(Tail(files),
                 IF get_version_number(Head(files)) > best
                 THEN get_version_number(Head(files)) ELSE best)

\* max(get_version_number(f) for f in family_files)
MaxVersion(files) == MaxFrom(Tail(files), get_version_number(Head(files)))

\* a numbering that writes the latest version again
NextNumSame(family_files) ==
    IF family_files = <<>> THEN 1 ELSE MaxVersion(family_files)

\* the next number skips one
NextNumPlusTwo(family_files) ==
    IF family_files = <<>> THEN 1 ELSE MaxVersion(family_files) + 2

\* next_num: 1 for a new family, else the latest version + 1
NextNum(family_files) ==
    IF family_files = <<>> THEN 1 ELSE MaxVersion(family_files) + 1

\* f"{family_name}_v{str(next_num).zfill(2)}.docx"
next_version_filename(family_name, existing_files) ==
    family_name \o SufV
        \o zfill(Str(NextNum(FamilyFiles(family_name, existing_files))), 2) \o ExtDocx

RECURSIVE OldestFrom(_, _)
OldestFrom(files, best) ==
    IF files = <<>> THEN best
    ELSE OldestFrom(Tail(files),
                    IF get_version_number(Head(files)) < get_version_number(best)
                    THEN Head(files) ELSE best)

\* min(family_files, key=get_version_number)
OldestOf(family_files) == OldestFrom(Tail(family_files), Head(family_files))

RECURSIVE LatestFrom(_, _)
\* max() walks the list and keeps the first file of the highest key
LatestFrom(files, best) ==
    IF files = <<>> THEN best
    ELSE LatestFrom(Tail(files),
                    IF get_version_number(Head(files)) > get_version_number(best)
                    THEN Head(files) ELSE best)

\* max(family_files, key=get_version_number)
LatestOf(family_files) == LatestFrom(Tail(family_files), Head(family_files))

get_latest_version_filename(family_name, existing_files) ==
    LET family_files == FamilyFiles(family_name, existing_files)
    IN  IF family_files = <<>> THEN NoFile ELSE LatestOf(family_files)

\* latest.replace(".docx", ".json")
JsonName(docx_name) == StrReplace(docx_name, ExtDocx, ExtJson)

---------------------------------------------------------------------------
(* docx_utils: the placeholder scanner *)

\* \w and \s
WordChars ==
    {DigitChars[i] : i \in DOMAIN DigitChars} \cup {UpperChars[i] : i \in DOMAIN UpperChars}
        \cup {LowerChars[i] : i \in DOMAIN LowerChars} \cup {"_"}
SpaceChars == {" "}

\* the characters of identifiers in code-point order
CodeOrder == DigitChars \o UpperChars \o <<"_">> \o LowerChars
CodePoint == [c \in WordChars |-> CHOOSE i \in DOMAIN CodeOrder : CodeOrder[i] = c]

RECURSIVE SkipWhile(_, _, _)
\* the first position from i on whose character is not of the class
SkipWhile(text, i, class) ==
    IF i <= Len(text) /\ text[i] \in class THEN SkipWhile(text, i + 1, class) ELSE i

\* PLACEHOLDER_PATTERN = r'\{\{\s*(\w+)\s*\}\}' tried at position i:
\* <<identifier>> when it matches there, <<>> when it does not
TagAt(text, i) ==
    LET a == SkipWhile(text, i + 2, SpaceChars)
        b == SkipWhile(text, a, WordChars)
        c == SkipWhile(text, b, SpaceChars)
    IN  IF /\ i + 1 <= Len(text)
           /\ text[i] = "{"
           /\ text[i + 1] = "{"
           /\ b > a
           /\ c + 1 <= Len(text)
           /\ text[c] = "}"
           /\ text[c + 1] = "}"
        THEN <<SubSeq(text, a, b - 1)>>
        ELSE <<>>

\* set(PLACEHOLDER_PATTERN.findall(text)): matches cannot overlap, so every
\* position the pattern matches at is a match findall reports
FindAll(text) == {TagAt(text, i)[1] : i \in {j \in 1..Len(text) : TagAt(text, j) # <<>>}}

RECURSIVE StrLess(_, _)
\* a < b for strings: by code point, a proper prefix first
StrLess(a, b) ==
    IF b = <<>> THEN FALSE
    ELSE IF a = <<>> THEN TRUE
    ELSE IF a[1] = b[1] THEN StrLess(Tail(a), Tail(b))
    ELSE CodePoint[a[1]] < CodePoint[b[1]]

RECURSIVE SortedDescending(_)
\* sorted(found, reverse=True)
SortedDescending(found) ==
    IF found = {} THEN <<>>
    ELSE LET m == CHOOSE x \in found : \A y \in found \ {x} : StrLess(y, x)
         IN  <<m>> \o SortedDescending(found \ {m})

RECURSIVE Sorted(_)
\* sorted(found)
Sorted(found) ==
    IF found = {} THEN <<>>
    ELSE LET m == CHOOSE x \in found : \A y \in found \ {x} : StrLess(x, y)
         IN  <<m>> \o Sorted(found \ {m})

\* found = set(); the loop over doc.paragraphs, the loop over the cells of the
\* rows of doc.tables; return sorted(found)
scan_placeholders(template_bytes) ==
    LET doc == Document(template_bytes)
    IN  Sorted(UNION {FindAll(Flatten(doc.body[i])) : i \in DOMAIN doc.body}
               \cup UNION {FindAll(Flatten(doc.cells[doc.row_cells[k]])) :
                              k \in DOMAIN doc.row_cells})

---------------------------------------------------------------------------
(* docx_utils: the Memory record text *)

EmptyStr == <<>>

\* json.dumps(context): a non-empty text holding the mapping
serialize_context(context) == <<context>>

\* a parser that answers an empty text with a stock mapping
deserialize_or_default(json_str) == IF json_str = EmptyStr THEN CtxBoth ELSE json_str[1]

\* "" (and None) give {}; any other text is parsed
deserialize_context(json_str) == IF json_str = EmptyStr THEN EmptyCtx ELSE json_str[1]

\* {**previous_context, **replacements}
MergeContexts(previous_context, replacements) ==
    [k \in DOMAIN previous_context \cup DOMAIN replacements |->
        IF k \in DOMAIN replacements THEN replacements[k] ELSE previous_context[k]]

---------------------------------------------------------------------------
(* graph_client: the methods GraphClient defines and the storage they reach *)

\* Each method of the class with the keyword parameters it accepts.
GraphClientMethods ==
    [get_sharepoint_site_id |-> {"site_url"},
     download_sharepoint_file |-> {"site_url", "folder_path", "file_name"},
     list_sharepoint_files |-> {"site_url", "folder_path"},
     upload_onedrive_file |-> {"onedrive_user", "folder_path", "file_name", "content"},
     download_onedrive_file |-> {"onedrive_user", "folder_path", "file_name"},
     list_onedrive_folder |-> {"onedrive_user", "folder_path"},
     upload_json_file |-> {"onedrive_user", "folder_path", "file_name", "content"},
     download_json_file |-> {"onedrive_user", "folder_path", "file_name"}]

\* graph.<method>(**kwargs): what the call itself does before any request is sent.
CallOutcome(method, kwargs) ==
    IF method \notin DOMAIN GraphClientMethods THEN "AttributeError"
    ELSE IF kwargs # GraphClientMethods[method] THEN "TypeError"
    ELSE "ok"

\* PUT .../root:/<folder>/<file>:/content keeps the first content (never overwrites)
StoragePutIfAbsent(store, name, content) ==
    IF name \in DOMAIN store THEN store
    ELSE [f \in DOMAIN store \cup {name} |-> IF f = name THEN content ELSE store[f]]

\* PUT .../root:/<folder>/<file>:/content creates the file or replaces its content
StoragePut(store, name, content) ==
    [f \in DOMAIN store \cup {name} |-> IF f = name THEN content ELSE store[f]]

\* GET .../content of a Memory record: 404 gives ""
download_json_file(store, name) ==
    IF name \in DOMAIN store THEN store[name] ELSE EmptyStr

RECURSIVE SeqOf(_)
\* the members of a set in the order the listing gives them
SeqOf(S) ==
    IF S = {} THEN <<>>
    ELSE LET x == CHOOSE x \in S : TRUE IN <<x>> \o SeqOf(S \ {x})

\* GET .../children: the names of the files of the project folder (404 gives [])
FolderFiles(d, o) == SeqOf(DOMAIN d \cup o)

\* GET .../children: whether the listing has any item, the Memory folder included
FolderHasItems(d, m, o) == DOMAIN d # {} \/ o # {} \/ DOMAIN m # {}

\* Status codes the storage answers a request with
Statuses == {200, 201, 401, 404, 500}

\* response.raise_for_status() lets the 2xx answers pass
IsSuccess(status) == status \in 200..299

\* the methods that look up the site id before their own request
SharePointMethods == {"download_sharepoint_file", "list_sharepoint_files"}

EmptyList == <<>>
\* the methods with "if response.status_code == 404: return ..." and what they return
NotFoundValue == [list_onedrive_folder |-> EmptyList, download_json_file |-> EmptyStr]

Returned(value) == [kind |-> "returned", value |-> value]
HTTPStatusError == [kind |-> "raised", value |-> <<"HTTPStatusError">>]

\* One call of a GraphClient method: site_status answers the site lookup of the
\* SharePoint methods, status answers the method's own request; a success
\* returns what the response holds.
GraphCall(method, site_status, status) ==
    IF method \in SharePointMethods /\ ~IsSuccess(site_status) THEN HTTPStatusError
    ELSE IF status = 404 /\ method \in DOMAIN NotFoundValue THEN Returned(NotFoundValue[method])
    ELSE IF ~IsSuccess(status) THEN HTTPStatusError
    ELSE Returned(<<"response">>)

---------------------------------------------------------------------------
(* Tool invocations *)

ProjectName == <<"d", "e", "m", "o">>
OtherFiles == {FileName(<<"o", "t", "h", "e", "r">>, 4, ExtDocx)}

NoLocals ==
    [kind |-> "none", replacements |-> EmptyCtx, find_text |-> <<>>, replace_text |-> <<>>,
     existing_files |-> <<>>, latest_docx |-> NoFile,
     previous_context |-> EmptyCtx, merged_context |-> EmptyCtx,
     new_bytes |-> NoBytes, replacements_made |-> 0, new_filename |-> NoFile]

Invocations ==
    {[NoLocals EXCEPT !.kind = "fill", !.replacements = r] : r \in Replacements}
    \cup {[NoLocals EXCEPT !.kind = "edit", !.find_text = f, !.replace_text = t] :
             f \in FindTexts, t \in ReplaceTexts}
    \cup {[NoLocals EXCEPT !.kind = "get_context"]}

\* What a handler returns (kind is the message) or raises (kind = "raised").
Outcome(kind, error, file, context) ==
    [kind |-> kind, error |-> error, file |-> file, context |-> context]
NoResult == Outcome("none", "", NoFile, EmptyCtx)
Raised(error) == Outcome("raised", error, NoFile, EmptyCtx)

Request(method, name, ok) == [method |-> method, name |-> name, ok |-> ok]

\* a handler that notes the outcome and awaits the same call again
AwaitAgain(p, outcome) ==
    /\ result' = [result EXCEPT ![p] = outcome]
    /\ UNCHANGED pc

\* return <message> or an exception leaving the handler: the invocation is over
Finish(p, outcome) ==
    /\ pc' = [pc EXCEPT ![p] = "idle"]
    /\ result' = [result EXCEPT ![p] = outcome]

Goto(p, label) ==
    /\ pc' = [pc EXCEPT ![p] = label]
    /\ UNCHANGED result

Issue(p, method, name, ok) == log' = [log EXCEPT ![p] = Append(@, Request(method, name, ok))]

NoCalc == [fn |-> "none"]

Init ==
    /\ \E n \in 0..MaxInit :
          /\ docs \in [{FileName(ProjectName, v, ExtDocx) : v \in 1..n} -> InitDocs]
          /\ mem \in [{FileName(ProjectName, v, ExtJson) : v \in 1..n} ->
                        {serialize_context(c) : c \in InitContexts}]
    /\ others \in SUBSET OtherFiles
    /\ pc = [p \in Procs |-> "idle"]
    /\ loc = [p \in Procs |-> NoLocals]
    /\ result = [p \in Procs |-> NoResult]
    /\ log = [p \in Procs |-> <<>>]
    /\ snap = [p \in Procs |-> [docs |-> docs, mem |-> mem]]
    /\ lastPut = <<>>
    /\ nops = 0
    /\ calc = NoCalc

\* The dispatcher calls a tool handler with its arguments; the call takes the
\* lowest free slot.
Invoke(p) ==
    /\ pc[p] = "idle"
    /\ \A q \in Procs : q < p => pc[q] # "idle"
    /\ nops < MaxOps
    /\ \E i \in Invocations : loc' = [loc EXCEPT ![p] = i]
    /\ pc' = [pc EXCEPT ![p] = "list"]
    /\ result' = [result EXCEPT ![p] = NoResult]
    /\ log' = [log EXCEPT ![p] = <<>>]
    /\ snap' = [snap EXCEPT ![p] = [docs |-> docs, mem |-> mem]]
    /\ nops' = nops + 1
    /\ UNCHANGED <<docs, mem, others, lastPut, calc>>

\* fill, edit: graph.list_onedrive_folder; get_context: graph.list_sharepoint_folder;
\* then the handler up to its next awaited call.
ListFolder(p) ==
    LET l == loc[p]
        method == IF l.kind = "get_context" THEN "list_sharepoint_folder"
                  ELSE "list_onedrive_folder"
        kwargs == IF l.kind = "get_context" THEN {"drive_id", "folder_path"}
                  ELSE {"onedrive_user", "folder_path"}
    IN  /\ pc[p] = "list"
        /\ UNCHANGED <<docs, mem, others, snap, lastPut, nops, calc>>
        /\ \E ok \in BOOLEAN, existing_files \in {FolderFiles(docs, others)} :
           \E latest_docx \in {get_latest_version_filename(ProjectName, existing_files)} :
             IF CallOutcome(method, kwargs) # "ok"
             THEN /\ Finish(p, Raised(CallOutcome(method, kwargs)))
                  /\ UNCHANGED <<loc, log>>
             ELSE IF ~ok
             THEN /\ Issue(p, method, NoFile, FALSE)
                  /\ Finish(p, Raised("HTTPStatusError"))
                  /\ UNCHANGED loc
             ELSE /\ Issue(p, method, NoFile, TRUE)
                  /\ IF l.kind = "fill"
                     THEN IF latest_docx # NoFile
                          THEN /\ loc' = [loc EXCEPT ![p].existing_files = existing_files,
                                                     ![p].latest_docx = latest_docx]
                               /\ Goto(p, "download_json")
                          ELSE /\ loc' = [loc EXCEPT ![p].existing_files = existing_files,
                                                     ![p].latest_docx = latest_docx,
                                                     ![p].previous_context = EmptyCtx,
                                                     ![p].merged_context =
                                                         MergeContexts(EmptyCtx, l.replacements)]
                               /\ Goto(p, "download_template")
                     ELSE IF ~FolderHasItems(docs, mem, others) \/ latest_docx = NoFile
                          THEN /\ loc' = [loc EXCEPT ![p].existing_files = existing_files]
                               /\ Finish(p, Outcome("no_versions", "", NoFile, EmptyCtx))
                          ELSE /\ loc' = [loc EXCEPT ![p].existing_files = existing_files,
                                                     ![p].latest_docx = latest_docx]
                               /\ Goto(p, IF l.kind = "edit" THEN "download_docx"
                                          ELSE "download_json")

\* edit: the zero-replacement short-circuit is never taken
NotFoundNever(replacements_made) == FALSE

\* edit: if replacements_made == 0: return "... was not found ..."
NotFound(replacements_made) == replacements_made = 0

\* edit: graph.download_onedrive_file of the latest version, find_and_replace,
\* the zero-replacement return, next_version_filename.
DownloadDocx(p) ==
    LET l == loc[p]
        found == l.latest_docx \in DOMAIN docs
    IN  /\ pc[p] = "download_docx"
        /\ UNCHANGED <<docs, mem, others, snap, lastPut, nops, calc>>
        /\ \E ok \in BOOLEAN :
             IF ~ok \/ ~found
             THEN /\ Issue(p, "download_onedrive_file", l.latest_docx, FALSE)
                  /\ Finish(p, Raised("HTTPStatusError"))
                  /\ UNCHANGED loc
             ELSE \E far \in {find_and_replace(docs[l.latest_docx], l.find_text,
                                                 l.replace_text, Now)} :
                  /\ Issue(p, "download_onedrive_file", l.latest_docx, TRUE)
                  /\ IF NotFound(far.replacements_made)
                     THEN /\ Finish(p, Outcome("text_not_found", "", l.latest_docx, EmptyCtx))
                          /\ UNCHANGED loc
                     ELSE /\ loc' = [loc EXCEPT
                                 ![p].new_bytes = far.bytes,
                                 ![p].replacements_made = far.replacements_made,
                                 ![p].new_filename =
                                     next_version_filename(ProjectName, l.existing_files)]
                          /\ Goto(p, "upload_docx")

\* fill: graph.download_sharepoint_file(drive_id=..., folder_path=..., file_name=...),
\* render_template, next_version_filename.
DownloadTemplate(p) ==
    LET l == loc[p]
        kwargs == {"drive_id", "folder_path", "file_name"}
    IN  /\ pc[p] = "download_template"
        /\ UNCHANGED <<docs, mem, others, snap, lastPut, nops, calc>>
        /\ \E ok \in BOOLEAN :
             IF CallOutcome("download_sharepoint_file", kwargs) # "ok"
             THEN /\ Finish(p, Raised(CallOutcome("download_sharepoint_file", kwargs)))
                  /\ UNCHANGED <<loc, log>>
             ELSE IF ~ok
             THEN /\ Issue(p, "download_sharepoint_file", NoFile, FALSE)
                  /\ Finish(p, Raised("HTTPStatusError"))
                  /\ UNCHANGED loc
             ELSE /\ Issue(p, "download_sharepoint_file", NoFile, TRUE)
                  /\ loc' = [loc EXCEPT
                         ![p].new_bytes =
                             render_template(TemplateBytes, l.merged_context, Now),
                         ![p].new_filename =
                             next_version_filename(ProjectName, l.existing_files)]
                  /\ Goto(p, "upload_docx")

\* fill, edit: graph.upload_onedrive_file of the new version.
UploadDocx(p) ==
    LET l == loc[p]
    IN  /\ pc[p] = "upload_docx"
        /\ UNCHANGED <<mem, others, snap, loc, nops, calc>>
        /\ \E ok \in BOOLEAN :
             IF ~ok
             THEN /\ Issue(p, "upload_onedrive_file", l.new_filename, FALSE)
                  /\ Finish(p, Raised("HTTPStatusError"))
                  /\ UNCHANGED <<docs, lastPut>>
             ELSE /\ Issue(p, "upload_onedrive_file", l.new_filename, TRUE)
                  /\ docs' = StoragePut(docs, l.new_filename, l.new_bytes)
                  /\ lastPut' = [f \in DOMAIN lastPut \cup {l.new_filename} |->
                                     IF f = l.new_filename THEN p ELSE lastPut[f]]
                  /\ Goto(p, IF l.kind = "fill" THEN "upload_json" ELSE "download_json")

\* edit: if previous_context:
CarryForward(previous_context) == previous_context # EmptyCtx

\* fill, edit: graph.download_json_file of the latest version's Memory record;
\* get_context: graph.download_sharepoint_json; then the handler up to its next call.
DownloadJson(p) ==
    LET l == loc[p]
        method == IF l.kind = "get_context" THEN "download_sharepoint_json"
                  ELSE "download_json_file"
        kwargs == IF l.kind = "get_context" THEN {"drive_id", "folder_path", "file_name"}
                  ELSE {"onedrive_user", "folder_path", "file_name"}
    IN  /\ pc[p] = "download_json"
        /\ UNCHANGED <<docs, mem, others, snap, lastPut, nops, calc>>
        /\ \E ok \in BOOLEAN, memory_filename \in {JsonName(l.latest_docx)} :
           \E context \in {deserialize_context(download_json_file(mem, memory_filename))} :
             IF CallOutcome(method, kwargs) # "ok"
             THEN /\ Finish(p, Raised(CallOutcome(method, kwargs)))
                  /\ UNCHANGED <<loc, log>>
             ELSE IF ~ok
             THEN /\ Issue(p, method, memory_filename, FALSE)
                  /\ Finish(p, Raised("HTTPStatusError"))
                  /\ UNCHANGED loc
             ELSE /\ Issue(p, method, memory_filename, TRUE)
                  /\ IF l.kind = "fill"
                     THEN /\ loc' = [loc EXCEPT
                                 ![p].previous_context = context,
                                 ![p].merged_context =
                                     MergeContexts(context, l.replacements)]
                          /\ Goto(p, "download_template")
                     ELSE IF l.kind = "edit"
                     THEN /\ loc' = [loc EXCEPT ![p].previous_context = context]
                          /\ IF CarryForward(context)
                             THEN Goto(p, "upload_json")
                             ELSE Finish(p, Outcome("updated", "", l.new_filename, EmptyCtx))
                     ELSE /\ UNCHANGED loc
                          /\ IF context = EmptyCtx
                             THEN Finish(p, Outcome("no_context", "", l.latest_docx, EmptyCtx))
                             ELSE Finish(p, Outcome("context", "", l.latest_docx, context))

\* fill, edit: graph.upload_json_file of the new version's Memory record.
UploadJson(p) ==
    LET l == loc[p]
        context == IF l.kind = "fill" THEN l.merged_context ELSE l.previous_context
    IN  /\ pc[p] = "upload_json"
        /\ UNCHANGED <<docs, others, snap, lastPut, loc, nops, calc>>
        /\ \E ok \in BOOLEAN, memory_filename \in {JsonName(l.new_filename)} :
             IF ~ok
             THEN /\ Issue(p, "upload_json_file", memory_filename, FALSE)
                  /\ Finish(p, Raised("HTTPStatusError"))
                  /\ UNCHANGED mem
             ELSE /\ Issue(p, "upload_json_file", memory_filename, TRUE)
                  /\ mem' = StoragePut(mem, memory_filename, serialize_context(context))
                  /\ Finish(p, Outcome(IF l.kind = "fill" THEN "saved" ELSE "updated",
                                       "", l.new_filename, EmptyCtx))

Step(p) ==
    \/ ListFolder(p)
    \/ DownloadDocx(p)
    \/ DownloadTemplate(p)
    \/ UploadDocx(p)
    \/ DownloadJson(p)
    \/ UploadJson(p)

\* Tool calls arrive at any time: invocations overlap.
Next == \E p \in Procs : Invoke(p) \/ Step(p)

Spec == Init /\ [][Next]_vars

\* Tool calls arrive one after the other: a handler starts when none is running.
SeqNext ==
    \E p \in Procs :
        \/ (\A q \in Procs : pc[q] = "idle") /\ Invoke(p)
        \/ Step(p)

SeqSpec == Init /\ [][SeqNext]_vars

---------------------------------------------------------------------------
(* mcp_tools: the API key middleware in front of the routes *)

None == <<"None">>

\* paths of requests: the three routes of create_app and two that are no route
RequestPaths == {"/health", "/sse", "/messages/", "/health/", "/other"}

\* routes=health_routes + protected_routes
Routes == {"/health", "/sse", "/messages/"}

\* keys the server may be configured with (load_config refuses an empty one)
ApiKeys == {<<"k1">>, <<"k2">>}

\* request.headers.get("X-API-Key"): None when the header is not sent
HeaderValues == ApiKeys \cup {None, <<>>, <<"K1">>}

\* the application behind the middleware: the endpoint of the route, if any
Endpoint(path) == IF path \in Routes THEN path ELSE "not found"

\* status of the response call_next gives: the endpoint's, 404 without a route
RouterStatus(path) == IF path \in Routes THEN 200 ELSE 404

\* a gate that lets every request with the header through
HasHeader(api_key, header) == header # None

\* request.headers.get("X-API-Key") == self.api_key
KeyMatches(api_key, header) == header = api_key

\* APIKeyMiddleware.dispatch: whether call_next(request) is awaited, and the
\* status of the response when it is not
dispatch(api_key, path, header) ==
    IF path = "/health" THEN [call_next |-> TRUE, status_code |-> RouterStatus(path)]
    ELSE IF KeyMatches(api_key, header)
         THEN [call_next |-> TRUE, status_code |-> RouterStatus(path)]
    ELSE [call_next |-> FALSE, status_code |-> 401]

---------------------------------------------------------------------------
(* Calls of the utility functions on their own *)

MaxFiles == 2    \* length of the file list handed to the naming functions

handler_vars == <<docs, mem, others, pc, loc, result, log, snap, lastPut, nops>>

\* Family names as a caller passes them: demo, Demo, demo.docx, demo_v1
FamilyNames ==
    {ProjectName,
     <<"D", "e", "m", "o">>,
     ProjectName \o ExtDocx,
     ProjectName \o SufV \o <<"1">>}

\* File names a project folder can list:
\*   demo_v01.docx  demo_v1.docx  DEMO_v99.docx  demo_v100.docx  demo_V05.docx
\*   demo_V03.DOCX  demo.docx  demo_v03.json  other_v04.docx  demo_v1_v02.docx
CandidateFiles ==
    {FileName(ProjectName, 1, ExtDocx),
     ProjectName \o SufV \o <<"1">> \o ExtDocx,
     FileName(<<"D", "E", "M", "O">>, 99, ExtDocx),
     FileName(ProjectName, 100, ExtDocx),
     ProjectName \o <<"_", "V", "0", "5">> \o ExtDocx,
     ProjectName \o <<"_", "V", "0", "3", ".", "D", "O", "C", "X">>,
     ProjectName \o ExtDocx,
     FileName(ProjectName, 3, ExtJson),
     FileName(<<"o", "t", "h", "e", "r">>, 4, ExtDocx),
     FileName(ProjectName \o SufV \o <<"1">>, 2, ExtDocx)}

FileLists == UNION {[1..n -> CandidateFiles] : n \in 0..MaxFiles}

\* Version numbers as written in a name: NN, also one digit and three digits wide
VersionDigits == {Str(n) : n \in {0, 7, 10, 99, 100}} \cup {zfill(Str(n), 2) : n \in {0, 7}}

\* One call is looked at per behaviour: it starts from the server's initial state
\* with an empty folder.
UtilInit ==
    /\ docs = <<>>
    /\ mem = <<>>
    /\ others = {}
    /\ pc = [p \in Procs |-> "idle"]
    /\ loc = [p \in Procs |-> NoLocals]
    /\ result = [p \in Procs |-> NoResult]
    /\ log = [p \in Procs |-> <<>>]
    /\ snap = [p \in Procs |-> [docs |-> docs, mem |-> mem]]
    /\ lastPut = <<>>
    /\ nops = 0
    /\ calc = NoCalc

CallNextVersionFilename ==
    /\ calc = NoCalc
    /\ \E family_name \in FamilyNames, existing_files \in FileLists :
          calc' = [fn |-> "next_version_filename",
                   family_name |-> family_name,
                   existing_files |-> existing_files,
                   out |-> next_version_filename(family_name, existing_files)]
    /\ UNCHANGED handler_vars

CallGetLatestVersionFilename ==
    /\ calc = NoCalc
    /\ \E family_name \in FamilyNames, existing_files \in FileLists :
          calc' = [fn |-> "get_latest_version_filename",
                   family_name |-> family_name,
                   existing_files |-> existing_files,
                   out |-> get_latest_version_filename(family_name, existing_files)]
    /\ UNCHANGED handler_vars

CallGetFamilyName ==
    /\ calc = NoCalc
    /\ \E filename \in CandidateFiles \cup FamilyNames :
          calc' = [fn |-> "get_family_name",
                   filename |-> filename,
                   out |-> get_family_name(filename)]
    /\ UNCHANGED handler_vars

\* Texts of documents handed to find_and_replace on its own, character by character
AnnText == <<"A", "n", "n">>
AnnieText == AnnText \o <<"i", "e">>
BobText == <<"B", "o", "b">>
ZedText == <<"Z", "e", "d">>

\* one paragraph with the runs "Ann Ann", " " and "Ann"
DocTwice(saved_at) ==
    [body |-> << <<AnnText \o <<" ">> \o AnnText, <<" ">>, AnnText>> >>,
     cells |-> <<>>, row_cells |-> <<>>, saved_at |-> saved_at]

\* "Ann" split over the runs "An" and "n" in the body, whole in a table cell
DocSplit(saved_at) ==
    [body |-> << << <<"A", "n">>, <<"n">> >> >>,
     cells |-> << <<AnnText>> >>, row_cells |-> <<1>>, saved_at |-> saved_at]

\* a table row of three grid columns: a cell "Ann" merged over two of them, a cell "Bob"
DocMerged(saved_at) ==
    [body |-> <<>>,
     cells |-> << <<AnnText>>, <<BobText>> >>, row_cells |-> <<1, 1, 2>>,
     saved_at |-> saved_at]

TextDocs == {DocTwice(t) : t \in Clock} \cup {DocSplit(t) : t \in Clock}
                \cup {DocMerged(t) : t \in Clock}
FindInputs == {AnnText, ZedText, <<>>}
ReplaceInputs == {BobText, AnnieText}

CallFindAndReplace ==
    /\ calc = NoCalc
    /\ \E docx_bytes \in TextDocs, find_text \in FindInputs,
          replace_text \in ReplaceInputs, now \in Clock :
          calc' = [fn |-> "find_and_replace",
                   docx_bytes |-> docx_bytes,
                   find_text |-> find_text,
                   replace_text |-> replace_text,
                   now |-> now,
                   out |-> find_and_replace(docx_bytes, find_text, replace_text, now)]
    /\ UNCHANGED handler_vars

\* Templates handed to scan_placeholders on its own, character by character
Tag(before, identifier, after) == <<"{", "{">> \o before \o identifier \o after \o <<"}", "}">>
FooText == <<"f", "o", "o">>
BarText == <<"b", "a", "r">>
FoText == <<"f", "o">>

\* "{{ foo }}", " ", "{{bar}}" in one paragraph and "{{ foo }}" again in the next
TemplateRepeats ==
    [body |-> << <<Tag(<<" ">>, FooText, <<" ">>), <<" ">>, Tag(<<>>, BarText, <<>>)>>,
                 <<Tag(<<" ">>, FooText, <<" ">>)>> >>,
     cells |-> <<>>, row_cells |-> <<>>, saved_at |-> 0]

\* "{{foo}}" split over two runs in the body; "{{ Zed  }}" in a merged cell,
\* "{{fo}}{{foo}}" in another cell
TemplateTable ==
    [body |-> << << <<"{", "{", "f", "o">>, <<"o", "}", "}">> >> >>,
     cells |-> << <<Tag(<<" ">>, ZedText, <<" ", " ">>)>>,
                  <<Tag(<<>>, FoText, <<>>) \o Tag(<<>>, FooText, <<>>)>> >>,
     row_cells |-> <<1, 1, 2>>, saved_at |-> 0]

\* no tag: "{{ foo", "{ {bar}}", "{{fo o}}", "{{}}", "{{ }}"
TemplateBroken ==
    [body |-> << << <<"{", "{", " ">> \o FooText >>,
                 << <<"{", " ", "{">> \o BarText \o <<"}", "}">> >>,
                 << Tag(<<>>, FoText \o <<" ", "o">>, <<>>) >>,
                 << Tag(<<>>, <<>>, <<>>), Tag(<<" ">>, <<>>, <<>>) >> >>,
     cells |-> <<>>, row_cells |-> <<>>, saved_at |-> 0]

\* "{{{bar}}}" in the body, "Dear {{ foo }}," in a cell
TemplateNested ==
    [body |-> << << <<"{">> \o Tag(<<>>, BarText, <<>>) \o <<"}">> >> >>,
     cells |-> << << <<"D", "e", "a", "r", " ">>, Tag(<<" ">>, FooText, <<" ">>) \o <<",">> >> >>,
     row_cells |-> <<1>>, saved_at |-> 0]

ScanInputs == {TemplateRepeats, TemplateTable, TemplateBroken, TemplateNested, NoBytes}

CallScanPlaceholders ==
    /\ calc = NoCalc
    /\ \E template_bytes \in ScanInputs :
          calc' = [fn |-> "scan_placeholders",
                   template_bytes |-> template_bytes,
                   out |-> scan_placeholders(template_bytes)]
    /\ UNCHANGED handler_vars

CallGraphClient ==
    /\ calc = NoCalc
    /\ \E method \in DOMAIN GraphClientMethods, status \in Statuses :
       \E site_status \in IF method \in SharePointMethods THEN Statuses ELSE {200} :
          calc' = [fn |-> "graph_client", method |-> method,
                   site_status |-> site_status, status |-> status,
                   out |-> GraphCall(method, site_status, status)]
    /\ UNCHANGED handler_vars

\* list_projects: what the loop reports for one project folder, from the names
\* of its items that are not folders
ProjectLine(project_items) ==
    LET IsDocx(f) == EndsWith(f, ExtDocx)
        docx_files == SelectSeq(project_items, IsDocx)
    IN  IF docx_files # <<>>
        THEN [kind |-> "latest",
              version |-> zfill(Str(get_version_number(LatestOf(docx_files))), 2)]
        ELSE [kind |-> "no versions yet", version |-> <<>>]

\* list_projects_action for an output folder holding one project folder:
\* graph.list_sharepoint_folder(drive_id=, folder_path=) twice, then the line
list_projects_action(project_items) ==
    IF CallOutcome("list_sharepoint_folder", {"drive_id", "folder_path"}) # "ok"
    THEN [kind |-> "raised",
          version |-> <<CallOutcome("list_sharepoint_folder", {"drive_id", "folder_path"})>>]
    ELSE ProjectLine(project_items)

CallListProjects ==
    /\ calc = NoCalc
    /\ \E project \in FamilyNames, project_items \in FileLists :
          calc' = [fn |-> "list_projects", project |-> project,
                   project_items |-> project_items,
                   out |-> list_projects_action(project_items)]
    /\ UNCHANGED handler_vars

CallDispatch ==
    /\ calc = NoCalc
    /\ \E api_key \in ApiKeys, path \in RequestPaths, header \in HeaderValues :
          calc' = [fn |-> "dispatch", api_key |-> api_key, path |-> path, header |-> header,
                   out |-> dispatch(api_key, path, header),
                   handler |-> IF dispatch(api_key, path, header).call_next
                               THEN Endpoint(path) ELSE "not called"]
    /\ UNCHANGED handler_vars

UtilNext ==
    \/ CallNextVersionFilename
    \/ CallGetLatestVersionFilename
    \/ CallGetFamilyName
    \/ CallFindAndReplace
    \/ CallScanPlaceholders
    \/ CallGraphClient
    \/ CallListProjects
    \/ CallDispatch

UtilSpec == UtilInit /\ [][UtilNext]_vars

---------------------------------------------------------------------------
(* mcp_server, config: the start of the server process *)

\* required_keys of load_config
required_keys ==
    {"MCP_SERVER_AUTH_KEY", "AZURE_TENANT_ID", "AZURE_CLIENT_ID", "AZURE_CLIENT_SECRET",
     "SHAREPOINT_DRIVE_ID", "SHAREPOINT_TEMPLATE_FOLDER", "ONEDRIVE_USER",
     "ONEDRIVE_OUTPUT_FOLDER"}

\* What the environment and the .env file give for a setting: nothing, the
\* empty text, or a text.
SettingValues == {None, <<>>, <<"x">>}

\* a check that only looks for unset settings
IsUnset(value) == value = None

\* value is None or value == ""
IsMissing(value) == value = None \/ value = <<>>

\* missing_keys after the loop over required_keys
missing_keys(settings) == {key \in required_keys : IsMissing(settings[key])}

\* load_config: raises ValueError when a required key is missing
load_config(settings) == IF missing_keys(settings) # {} THEN "ValueError" ELSE "ok"

\* the coroutine functions named *_action that auto-discovery finds in src/actions
ActionModules ==
    {"edit_document", "fill_template", "get_context", "list_projects", "list_templates",
     "read_template_placeholders"}

\* no handler runs and the folder is empty while the process starts
IdleServer ==
    /\ docs = <<>>
    /\ mem = <<>>
    /\ others = {}
    /\ pc = [p \in Procs |-> "idle"]
    /\ loc = [p \in Procs |-> NoLocals]
    /\ result = [p \in Procs |-> NoResult]
    /\ log = [p \in Procs |-> <<>>]
    /\ snap = [p \in Procs |-> [docs |-> docs, mem |-> mem]]
    /\ lastPut = <<>>
    /\ nops = 0

\* main() is entered; the settings are whatever the environment holds
StartInit ==
    /\ IdleServer
    /\ \E settings \in [required_keys -> SettingValues] :
          calc = [fn |-> "main", at |-> "load_config", settings |-> settings,
                  tools |-> {}, app |-> FALSE, listening |-> FALSE, raised |-> "none"]

AtMain(label) == calc.fn = "main" /\ calc.at = label

\* except Exception: log the failure and re-raise; the process ends
MainRaises(error) == calc' = [calc EXCEPT !.at = "exited", !.raised = error]

\* config = load_config()
MainLoadConfig ==
    /\ AtMain("load_config")
    /\ IF load_config(calc.settings) # "ok"
       THEN MainRaises(load_config(calc.settings))
       ELSE calc' = [calc EXCEPT !.at = "register_tools"]
    /\ UNCHANGED handler_vars

\* setup_logging, MCPServer(api_key), register_tools: load_config once more,
\* then one tool per action
MainRegisterTools ==
    /\ AtMain("register_tools")
    /\ IF load_config(calc.settings) # "ok"
       THEN MainRaises(load_config(calc.settings))
       ELSE calc' = [calc EXCEPT !.at = "create_app", !.tools = ActionModules]
    /\ UNCHANGED handler_vars

\* app = mcp_server.create_app(debug=True)
MainCreateApp ==
    /\ AtMain("create_app")
    /\ calc' = [calc EXCEPT !.at = "run", !.app = TRUE]
    /\ UNCHANGED handler_vars

\* uvicorn.run(app, host, port): the listener is up
MainRun ==
    /\ AtMain("run")
    /\ calc' = [calc EXCEPT !.at = "serving", !.listening = TRUE]
    /\ UNCHANGED handler_vars

StartNext == MainLoadConfig \/ MainRegisterTools \/ MainCreateApp \/ MainRun

StartSpec == StartInit /\ [][StartNext]_vars

---------------------------------------------------------------------------
(* graph_client: the token cache of one GraphClient instance *)

MaxCalls == 3

\* access tokens the identity service hands out (never the empty text)
Tokens == {<<"t1">>, <<"t2">>}

\* results of app.acquire_token_for_client: a token, or a result without one
AcquireResults == Tokens \cup {None}

\* methods called on the instance
ClientMethods == {"list_onedrive_folder", "download_json_file", "upload_onedrive_file"}

\* a cache that is never trusted
NeedsTokenAlways(token) == TRUE

\* _headers: if not self._token
NeedsToken(token) == token = None \/ token = <<>>

\* _get_token: raises ValueError when the result holds no access_token
get_token(acquire_result) == IF acquire_result = None THEN "ValueError" ELSE "ok"

\* GraphClient(...): self._token = None; no call made yet
ClientInit ==
    /\ IdleServer
    /\ calc = [fn |-> "GraphClient", token |-> None, calls |-> <<>>]

\* one awaited method of the instance: _headers() (with _get_token() when the
\* cache is empty), then the request carrying the token
ClientCall ==
    /\ calc.fn = "GraphClient"
    /\ Len(calc.calls) < MaxCalls
    /\ \E method \in ClientMethods, acquire_result \in AcquireResults, ok \in BOOLEAN :
          IF NeedsToken(calc.token)
          THEN IF get_token(acquire_result) # "ok"
               THEN calc' = [calc EXCEPT
                        !.calls = Append(@, [method |-> method, acquire |-> "failed",
                                             sent |-> None, raised |-> "ValueError"])]
               ELSE calc' = [calc EXCEPT
                        !.token = acquire_result,
                        !.calls = Append(@, [method |-> method, acquire |-> "acquired",
                                             sent |-> acquire_result,
                                             raised |-> IF ok THEN "none"
                                                        ELSE "HTTPStatusError"])]
          ELSE calc' = [calc EXCEPT
                   !.calls = Append(@, [method |-> method, acquire |-> "cached",
                                        sent |-> calc.token,
                                        raised |-> IF ok THEN "none" ELSE "HTTPStatusError"])]
    /\ UNCHANGED handler_vars

ClientNext == ClientCall

ClientSpec == ClientInit /\ [][ClientNext]_vars

---------------------------------------------------------------------------
(* Vocabulary of the properties *)

Finished(p) == pc[p] = "idle" /\ result[p].kind # "none"

\* every request the invocation issued was answered with success
AllOk(p) == \A i \in DOMAIN log[p] : log[p][i].ok

\* the requests of one method that the storage carried out
Done(p, method) == {i \in DOMAIN log[p] : log[p][i].method = method /\ log[p][i].ok}

StorageAsAtStart(p) == docs = snap[p].docs /\ mem = snap[p].mem

\* the names the project's version n goes by
DocName(n) == FileName(ProjectName, n, ExtDocx)
RecName(n) == FileName(ProjectName, n, ExtJson)

\* the version numbers of the documents in a folder
Versions(d) == {get_version_number(f) : f \in DOMAIN d}

\* highest version in a folder, 0 for none
Latest(d) ==
    LET numbers == Versions(d)
    IN  IF numbers = {} THEN 0 ELSE CHOOSE n \in numbers : \A v \in numbers : v <= n

\* the context stored for version n when the invocation started
ContextAtStart(p, n) ==
    IF RecName(n) \in DOMAIN snap[p].mem
    THEN deserialize_context(snap[p].mem[RecName(n)]) ELSE EmptyCtx

\* right-biased shallow merge, stated key by key
IsMergeOf(c, previous, new) ==
    /\ DOMAIN c = DOMAIN previous \cup DOMAIN new
    /\ \A k \in DOMAIN new : c[k] = new[k]
    /\ \A k \in DOMAIN previous \ DOMAIN new : c[k] = previous[k]

---------------------------------------------------------------------------
(* Properties *)

\* C1: a fill on a project folder without family documents, every storage call
\* succeeding, writes exactly one document <project>_v01.docx and exactly one
\* Memory record <project>_v01.json holding exactly the caller's replacements.
C1_FillNewProjectWritesV01 ==
    \A p \in Procs :
        (Finished(p) /\ loc[p].kind = "fill" /\ DOMAIN snap[p].docs = {} /\ AllOk(p)) =>
            /\ Cardinality(Done(p, "upload_onedrive_file")) = 1
            /\ Cardinality(Done(p, "upload_json_file")) = 1
            /\ DOMAIN docs = {DocName(1)}
            /\ DOMAIN mem = {RecName(1)}
            /\ deserialize_context(mem[RecName(1)]) = loc[p].replacements

\* C2: the Memory record a successful fill writes for the new version is the
\* right-biased shallow merge of the latest version's record with the fill's
\* replacements (so, by induction over the fills, of r1..rk).
C2_FillRecordIsMerge ==
    \A p \in Procs :
        (Finished(p) /\ loc[p].kind = "fill" /\ AllOk(p)) =>
            LET n == Latest(snap[p].docs)
            IN  /\ RecName(n + 1) \in DOMAIN mem
                /\ IsMergeOf(deserialize_context(mem[RecName(n + 1)]), ContextAtStart(p, n),
                             loc[p].replacements)

\* C3: after an edit that made at least one replacement on latest version n,
\* the Memory record of version n+1 exists and equals the record of version n.
C3_EditCarriesRecord ==
    \A p \in Procs :
        (Finished(p) /\ loc[p].kind = "edit" /\ result[p].kind = "updated") =>
            LET n == get_version_number(loc[p].latest_docx)
            IN  /\ RecName(n) \in DOMAIN mem
                /\ RecName(n + 1) \in DOMAIN mem
                /\ mem[RecName(n + 1)] = mem[RecName(n)]

\* C4: when find_and_replace reports 0 replacements on the downloaded latest
\* version, the edit issues no upload, the files and the latest version stay as
\* they were, and the result is the "not found" message.
C4_ZeroReplacementsWritesNothing ==
    \A p \in Procs :
        (/\ loc[p].kind = "edit"
         /\ Done(p, "download_onedrive_file") # {}
         /\ find_and_replace(snap[p].docs[loc[p].latest_docx], loc[p].find_text,
                             loc[p].replace_text, Now).replacements_made = 0) =>
            /\ \A i \in DOMAIN log[p] : log[p][i].method \notin
                   {"upload_onedrive_file", "upload_json_file"}
            /\ StorageAsAtStart(p)
            /\ Latest(docs) = Latest(snap[p].docs)
            /\ Finished(p)
            /\ result[p].kind = "text_not_found"

C4_Witness ==
    \E p \in Procs :
        /\ result[p].kind = "text_not_found"
        /\ loc[p].kind = "edit"
        /\ Done(p, "download_onedrive_file") # {}
        /\ DOMAIN docs # {}

\* C5: in sequential use every write of a document adds exactly one new
\* version, numbered 1 + the highest version present before it, and changes no
\* other document; an invocation uploads at most one document; the versions
\* present are always exactly 1..n.
C5_VersionsIncreaseByOne ==
    /\ [](DOMAIN docs = {DocName(n) : n \in 1..Latest(docs)})
    /\ [](\A p \in Procs : Cardinality(Done(p, "upload_onedrive_file")) <= 1)
    /\ [][docs' # docs =>
            /\ DOMAIN docs' = DOMAIN docs \cup {DocName(Latest(docs) + 1)}
            /\ Latest(docs') = Latest(docs) + 1
            /\ \A f \in DOMAIN docs : docs'[f] = docs[f]]_vars
    /\ [][Latest(docs') >= Latest(docs)]_vars

C5_Witness ==
    \E p \in Procs :
        /\ Done(p, "upload_onedrive_file") # {}
        /\ Latest(docs) = Latest(snap[p].docs) + 1
        /\ Latest(snap[p].docs) >= 1

\* C6: every version a successfully completed fill or edit created has a Memory
\* record, also when the edited version's context is empty.
C6_NewVersionHasRecord ==
    \A p \in Procs :
        (Finished(p) /\ result[p].kind \in {"saved", "updated"}) =>
            /\ loc[p].new_filename \in DOMAIN docs
            /\ JsonName(loc[p].new_filename) \in DOMAIN mem

\* C7: the document a fill writes is the named template rendered with the merged
\* context, whatever the bytes of the earlier version documents are.
C7_FillRendersTemplate ==
    \A p \in Procs :
        (Finished(p) /\ loc[p].kind = "fill" /\ AllOk(p)) =>
            LET n == Latest(snap[p].docs)
            IN  /\ DocName(n + 1) \in DOMAIN docs
                /\ \E c \in [DOMAIN ContextAtStart(p, n) \cup DOMAIN loc[p].replacements ->
                                {"Ann", "Bob", "Jan"}] :
                       /\ IsMergeOf(c, ContextAtStart(p, n), loc[p].replacements)
                       /\ Document(docs[DocName(n + 1)]) =
                              Document(render_template(TemplateBytes, c, Now))

\* C8: a fill or edit whose storage read fails leaves the storage exactly as it
\* was when the operation started (no upload comes before a read).
C8_FailedReadLeavesStorage ==
    \A p \in Procs :
        (/\ Finished(p)
         /\ loc[p].kind \in {"fill", "edit"}
         /\ result[p].kind = "raised"
         /\ log[p] # <<>>
         /\ log[p][Len(log[p])].method \in
                {"list_onedrive_folder", "download_onedrive_file", "download_json_file",
                 "download_sharepoint_file"}
         /\ ~log[p][Len(log[p])].ok) =>
            StorageAsAtStart(p)

\* C9: when two invocations in flight together computed the same next version
\* filename and both uploaded their document, the folder holds under that
\* version the bytes of the later upload only.
C9_LaterUploadOverwrites ==
    \A p, q \in Procs :
        (/\ p # q
         /\ Done(p, "upload_onedrive_file") # {}
         /\ Done(q, "upload_onedrive_file") # {}
         /\ loc[p].new_filename = loc[q].new_filename) =>
            LET f == loc[p].new_filename
            IN  /\ f \in DOMAIN docs
                /\ lastPut[f] \in {p, q}
                /\ docs[f] = loc[lastPut[f]].new_bytes

\* the race: both listed the folder before either uploaded, both uploaded under
\* one name, and the result of the earlier upload is stored nowhere
C9_Witness ==
    \E p, q \in Procs :
        /\ p # q
        /\ Done(p, "upload_onedrive_file") # {}
        /\ Done(q, "upload_onedrive_file") # {}
        /\ loc[p].new_filename = loc[q].new_filename
        /\ loc[p].existing_files = loc[q].existing_files
        /\ lastPut[loc[p].new_filename] = q
        /\ loc[p].new_bytes # loc[q].new_bytes
        /\ \A f \in DOMAIN docs : docs[f] # loc[p].new_bytes

\* C10: get_context on a project with latest version n returns the pairs of the
\* Memory record of version n labelled with version n, and the "no saved
\* context" message exactly when that record is empty or absent.
C10_GetContextReportsLatest ==
    \A p \in Procs :
        (/\ Finished(p)
         /\ loc[p].kind = "get_context"
         /\ AllOk(p)
         /\ DOMAIN snap[p].docs # {}) =>
            LET n == Latest(snap[p].docs)
            IN  IF ContextAtStart(p, n) = EmptyCtx
                THEN result[p].kind = "no_context"
                ELSE /\ result[p].kind = "context"
                     /\ result[p].context = ContextAtStart(p, n)
                     /\ get_version_number(result[p].file) = n

\* C11: when the project folder is missing, empty or holds no .docx file of the
\* family, edit_document and get_context return "No versions found for project
\* ...", raise no error, and issue no download and no upload.
C11_NoVersionsIsAResult ==
    \A p \in Procs :
        (/\ Finished(p)
         /\ loc[p].kind \in {"edit", "get_context"}
         /\ AllOk(p)
         /\ \A f \in DOMAIN snap[p].docs \cup others : ~PassesFilter(ProjectName, f)) =>
            /\ result[p].kind = "no_versions"
            /\ \A i \in DOMAIN log[p] :
                   log[p][i].method \in {"list_onedrive_folder", "list_sharepoint_folder"}

\* the files of a list that end in .docx and whose family name is F ignoring case
OwnFiles(F, files) ==
    {i \in DOMAIN files :
        EndsWith(files[i], ExtDocx) /\ Lower(get_family_name(files[i])) = Lower(F)}

\* the highest version number among them, 0 for none
Highest(F, files) ==
    LET numbers == {get_version_number(files[i]) : i \in OwnFiles(F, files)}
    IN  IF numbers = {} THEN 0 ELSE CHOOSE n \in numbers : \A m \in numbers : m <= n

\* name is F, "_v", the digits of k (any width) and ".docx"
IsVersionOf(name, F, k) ==
    /\ Len(name) > Len(F) + Len(SufV) + Len(ExtDocx)
    /\ SubSeq(name, 1, Len(F)) = F
    /\ SubSeq(name, Len(F) + 1, Len(F) + Len(SufV)) = SufV
    /\ EndsWith(name, ExtDocx)
    /\ \A j \in (Len(F) + Len(SufV) + 1)..(Len(name) - Len(ExtDocx)) : IsDigit(name[j])
    /\ IntOf(SubSeq(name, Len(F) + Len(SufV) + 1, Len(name) - Len(ExtDocx))) = k

\* C12: next_version_filename(F, files) is F in the caller's casing followed by
\* _v<k>.docx, k = 1 when no file of the list both ends in .docx and has a family
\* name equal to F ignoring case, else 1 + the highest version among those
\* files; a file of another family or not ending in .docx never changes k.
C12_NextVersionFilename ==
    calc.fn = "next_version_filename" =>
        LET F == calc.family_name
            files == calc.existing_files
        IN  /\ IsVersionOf(calc.out, F,
                           IF OwnFiles(F, files) = {} THEN 1 ELSE 1 + Highest(F, files))
            /\ \A g \in CandidateFiles :
                   (~EndsWith(g, ExtDocx) \/ Lower(get_family_name(g)) # Lower(F)) =>
                       /\ next_version_filename(F, Append(files, g)) = calc.out
                       /\ next_version_filename(F, <<g>> \o files) = calc.out

\* next_version_filename("Demo", [demo_v01.docx, other_v04.docx]) = Demo_v02.docx
C12_Witness ==
    /\ calc.fn = "next_version_filename"
    /\ calc.family_name = <<"D", "e", "m", "o">>
    /\ calc.existing_files =
           <<FileName(ProjectName, 1, ExtDocx), FileName(<<"o", "t", "h", "e", "r">>, 4, ExtDocx)>>
    /\ calc.out = <<"D", "e", "m", "o", "_", "v", "0", "2", ".", "d", "o", "c", "x">>

\* C13: the version written parses back: when the highest version among F's
\* files is n-1 (n >= 1), get_version_number(next_version_filename(F, files)) =
\* n, also for n >= 100 where the number is wider than two digits.
C13_WrittenVersionParsesBack ==
    calc.fn = "next_version_filename" =>
        get_version_number(calc.out) = Highest(calc.family_name, calc.existing_files) + 1

\* the highest version is 99 or 100: the name written has three digits
C13_Witness ==
    /\ calc.fn = "next_version_filename"
    /\ Highest(calc.family_name, calc.existing_files) >= 99
    /\ get_version_number(calc.out) >= 100
    /\ Len(calc.out) = Len(calc.family_name) + Len(SufV) + 3 + Len(ExtDocx)

\* C14: for every string G returned by get_family_name and every version number
\* NN, get_family_name(G + "_vNN.docx") = G; hence the file that
\* next_version_filename(F, .) names passes the family filter of F.
C14_FamilySplitRoundTrips ==
    /\ calc.fn = "get_family_name" =>
           \A NN \in VersionDigits :
               get_family_name(calc.out \o SufV \o NN \o ExtDocx) = calc.out
    /\ calc.fn = "next_version_filename" =>
           /\ get_family_name(calc.out) = calc.family_name
           /\ PassesFilter(calc.family_name, calc.out)

\* get_family_name("demo_v1_v02.docx") = "demo_v1": a family name that itself
\* holds "_v"
C14_Witness ==
    /\ calc.fn = "get_family_name"
    /\ calc.out # calc.filename
    /\ Contains(calc.out, SufV)

\* C15: get_latest_version_filename(F, files) returns None exactly when no file
\* passes the family filter; otherwise it returns a file of the list that passes
\* the filter and whose version number is >= that of every other passing file,
\* and get_version_number(next_version_filename(F, files)) is that file's version
\* number + 1.
C15_LatestVersionFilename ==
    calc.fn = "get_latest_version_filename" =>
        LET F == calc.family_name
            files == calc.existing_files
            own == OwnFiles(F, files)
        IN  /\ calc.out = NoFile <=> own = {}
            /\ own # {} =>
                  /\ \E i \in own : files[i] = calc.out
                  /\ \A j \in own :
                        get_version_number(files[j]) <= get_version_number(calc.out)
                  /\ get_version_number(next_version_filename(F, files)) =
                        get_version_number(calc.out) + 1

\* two files of the family with different versions, the older one listed last
C15_Witness ==
    /\ calc.fn = "get_latest_version_filename"
    /\ Len(calc.existing_files) = 2
    /\ OwnFiles(calc.family_name, calc.existing_files) = {1, 2}
    /\ calc.out = calc.existing_files[1]
    /\ get_version_number(calc.existing_files[2]) < get_version_number(calc.out)

\* find_text occurs in no body paragraph and no table-cell paragraph
OccursNowhere(docx_bytes, find_text) ==
    /\ \A i \in DOMAIN docx_bytes.body : ~Contains(Flatten(docx_bytes.body[i]), find_text)
    /\ \A i \in DOMAIN docx_bytes.cells : ~Contains(Flatten(docx_bytes.cells[i]), find_text)

\* C16 as stated: find_and_replace of a find_text that occurs in no paragraph and
\* no table-cell paragraph returns a count of 0 and document bytes equal to the
\* input bytes.
C16_AbsentTextReturnsInputBytes ==
    (calc.fn = "find_and_replace" /\ OccursNowhere(calc.docx_bytes, calc.find_text)) =>
        /\ calc.out.replacements_made = 0
        /\ calc.out.bytes = calc.docx_bytes

\* C16 amended: find_and_replace of a find_text that occurs in no paragraph and
\* no table-cell paragraph returns a count of 0 and a newly saved document whose
\* paragraphs, runs and table cells are those of the input.
C16_AbsentTextKeepsContent ==
    (calc.fn = "find_and_replace" /\ OccursNowhere(calc.docx_bytes, calc.find_text)) =>
        /\ calc.out.replacements_made = 0
        /\ Document(calc.out.bytes) = Document(calc.docx_bytes)
        /\ calc.out.bytes.saved_at = calc.now

\* the text is absent, the document has a body and a table, and the bytes
\* returned are not the bytes passed in
C16_Witness ==
    /\ calc.fn = "find_and_replace"
    /\ OccursNowhere(calc.docx_bytes, calc.find_text)
    /\ calc.docx_bytes.body # <<>>
    /\ calc.docx_bytes.cells # <<>>
    /\ calc.out.replacements_made = 0
    /\ calc.out.bytes # calc.docx_bytes

\* C17: the count find_and_replace returns is the number of runs (of body
\* paragraphs and of table-cell paragraphs) whose own text contains find_text; in
\* each such run every occurrence is replaced by replace_text; every other run
\* keeps its text, also when find_text appears only across adjacent runs.
C17_CountsRunsNotOccurrences ==
    calc.fn = "find_and_replace" =>
        LET before == Document(calc.docx_bytes)
            after == Document(calc.out.bytes)
            Touched(paras) ==
                UNION {{<<i, j>> : j \in {k \in DOMAIN paras[i] :
                                              Contains(paras[i][k], calc.find_text)}} :
                       i \in DOMAIN paras}
            Expected(paras) ==
                [i \in DOMAIN paras |->
                    [j \in DOMAIN paras[i] |->
                        IF <<i, j>> \in Touched(paras)
                        THEN StrReplace(paras[i][j], calc.find_text, calc.replace_text)
                        ELSE paras[i][j]]]
        IN  /\ calc.out.replacements_made =
                  Cardinality(Touched(before.body)) + Cardinality(Touched(before.cells))
            /\ after.body = Expected(before.body)
            /\ after.cells = Expected(before.cells)

\* C18: scan_placeholders returns the distinct placeholder identifiers of all
\* body paragraphs and all table-cell paragraphs, each exactly once and in
\* ascending sorted order, whatever the order and multiplicity of the tags.
C18_ScanSortedDistinct ==
    calc.fn = "scan_placeholders" =>
        LET doc == calc.template_bytes
            out == calc.out
        IN  /\ {out[i] : i \in DOMAIN out} =
                  UNION {FindAll(Flatten(doc.body[i])) : i \in DOMAIN doc.body}
                  \cup UNION {FindAll(Flatten(doc.cells[i])) : i \in DOMAIN doc.cells}
            /\ \A i, j \in DOMAIN out : i < j => StrLess(out[i], out[j])

\* foo twice in the body, Zed in a cell visited twice, fo and foo in one cell:
\* ["Zed", "fo", "foo"]
C18_Witness ==
    /\ calc.fn = "scan_placeholders"
    /\ calc.template_bytes = TemplateTable
    /\ calc.out = <<ZedText, FoText, FooText>>

\* C19: the Memory record of the latest version being absent, the download
\* gives the empty text, deserialize_context gives the empty mapping without
\* error, and the fill goes on with the context a fill over an empty previous
\* context has: exactly the caller's replacements.
C19_MissingRecordIsEmptyContext ==
    \A p \in Procs :
        (/\ loc[p].kind = "fill"
         /\ Done(p, "download_json_file") # {}
         /\ JsonName(loc[p].latest_docx) \notin DOMAIN snap[p].mem) =>
            /\ loc[p].previous_context = EmptyCtx
            /\ loc[p].merged_context = MergeContexts(EmptyCtx, loc[p].replacements)
            /\ loc[p].merged_context = loc[p].replacements
            /\ result[p].error # "HTTPStatusError"

\* a fill over a version an edit wrote without a record has read the missing
\* record and stands before the template download
C19_Witness ==
    \E p \in Procs :
        /\ loc[p].kind = "fill"
        /\ pc[p] = "download_template"
        /\ Latest(snap[p].docs) = 2
        /\ loc[p].latest_docx = DocName(2)
        /\ RecName(2) \notin DOMAIN snap[p].mem
        /\ Done(p, "download_json_file") # {}
        /\ loc[p].merged_context = loc[p].replacements

\* C20: a not-found response gives an empty list for a folder listing and an
\* empty string for a Memory record download, without error; a not-found
\* response for a document or template download, and any other non-success
\* response on any call, makes the call raise.
C20_NotFoundHandling ==
    calc.fn = "graph_client" =>
        LET listings == {"list_onedrive_folder", "list_sharepoint_files"}
            site_failed == calc.method \in SharePointMethods /\ ~IsSuccess(calc.site_status)
        IN  /\ site_failed => calc.out.kind = "raised"
            /\ (~site_failed /\ calc.status = 404 /\ calc.method \in listings) =>
                  calc.out = Returned(EmptyList)
            /\ (~site_failed /\ calc.status = 404 /\ calc.method = "download_json_file") =>
                  calc.out = Returned(EmptyStr)
            /\ (/\ ~IsSuccess(calc.status)
                /\ ~(calc.status = 404 /\ calc.method \in listings \cup {"download_json_file"})) =>
                  calc.out.kind = "raised"

\* C21: when a required setting is absent or empty, load_config raises, main
\* re-raises and the process ends without ever registering a tool, creating
\* the application or starting the listener.
C21_MissingSettingIsFatal ==
    (calc.fn = "main" /\ \E key \in required_keys : calc.settings[key] \in {None, <<>>}) =>
        /\ calc.tools = {}
        /\ ~calc.app
        /\ ~calc.listening
        /\ calc.at \in {"load_config", "exited"}
        /\ calc.at = "exited" => calc.raised = "ValueError"

\* one setting empty, all others given: main has ended with the ValueError
C21_Witness ==
    /\ calc.fn = "main"
    /\ calc.at = "exited"
    /\ calc.raised = "ValueError"
    /\ calc.settings["ONEDRIVE_USER"] = <<>>
    /\ \A key \in required_keys \ {"ONEDRIVE_USER"} : calc.settings[key] = <<"x">>

\* the names of a list without those that lack the version suffix
RECURSIVE WithSuffixOnly(_)
WithSuffixOnly(files) ==
    IF files = <<>> THEN <<>>
    ELSE IF SuffixMatches(Head(files)) = {} THEN WithSuffixOnly(Tail(files))
    ELSE <<Head(files)>> \o WithSuffixOnly(Tail(files))

C23_NoRetry ==
    \A p \in Procs :
        /\ \A i, j \in DOMAIN log[p] :
               (log[p][i].method = log[p][j].method /\ log[p][i].name = log[p][j].name) => i = j
        /\ \A i \in DOMAIN log[p] :
               ~log[p][i].ok =>
                   /\ i = Len(log[p])
                   /\ Finished(p)
                   /\ result[p] = Raised("HTTPStatusError")

\* an edit whose upload of the new version failed after two answered requests
C23_Witness ==
    \E p \in Procs :
        /\ loc[p].kind = "edit"
        /\ Len(log[p]) = 3
        /\ log[p][1].ok /\ log[p][2].ok
        /\ log[p][3] = Request("upload_onedrive_file", loc[p].new_filename, FALSE)
        /\ Finished(p)
        /\ result[p] = Raised("HTTPStatusError")
        /\ StorageAsAtStart(p)

\* C24: one GraphClient instance holds no token before its first call; once a
\* token was acquired every later call sends that token and acquires nothing;
\* a failed acquisition raises and leaves the cache empty, so the next call
\* acquires again.
C24_TokenCache ==
    calc.fn = "GraphClient" =>
        LET calls == calc.calls
        IN  /\ calls = <<>> => calc.token = None
            /\ \A i \in DOMAIN calls :
                   /\ i = 1 => calls[i].acquire # "cached"
                   /\ calls[i].acquire = "acquired" =>
                          /\ calls[i].sent \in Tokens
                          /\ calc.token = calls[i].sent
                          /\ \A j \in DOMAIN calls :
                                 j > i => /\ calls[j].acquire = "cached"
                                          /\ calls[j].sent = calls[i].sent
                   /\ calls[i].acquire = "failed" =>
                          /\ calls[i].raised = "ValueError"
                          /\ calls[i].sent = None
                          /\ i = Len(calls) => calc.token = None
                          /\ i < Len(calls) => calls[i + 1].acquire # "cached"

\* a failed acquisition, then a successful one, then a call on the cached token
\* that the storage refuses
C24_Witness ==
    /\ calc.fn = "GraphClient"
    /\ Len(calc.calls) = 3
    /\ calc.calls[1].acquire = "failed"
    /\ calc.calls[2].acquire = "acquired"
    /\ calc.calls[3].acquire = "cached"
    /\ calc.calls[3].sent = calc.calls[2].sent
    /\ calc.calls[3].raised = "HTTPStatusError"

\* C25: for every project folder, list_projects reports "no versions yet"
\* exactly when get_latest_version_filename(project, files) returns None, and
\* otherwise reports the version number of the file it returns.
C25_ListProjectsAgrees ==
    calc.fn = "list_projects" =>
        LET selected == get_latest_version_filename(calc.project, calc.project_items)
        IN  /\ calc.out.kind \in {"latest", "no versions yet"}
            /\ calc.out.kind = "no versions yet" <=> selected = NoFile
            /\ selected # NoFile =>
                   calc.out.version = zfill(Str(get_version_number(selected)), 2)

\* C26: in a sequential execution, failing operations included, every step
\* leaves every stored version document and every stored Memory record as it
\* is: an upload always goes to a name the folder does not hold yet.
C26_WrittenVersionsImmutable ==
    [][/\ \A f \in DOMAIN docs : f \in DOMAIN docs' /\ docs'[f] = docs[f]
       /\ \A f \in DOMAIN mem : f \in DOMAIN mem' /\ mem'[f] = mem[f]]_vars

\* an earlier edit wrote version 2 without a record (empty context, or the
\* record download failed); the next edit has written version 3, and versions
\* 1 and 2 are as they were
C26_Witness ==
    \E p \in Procs :
        /\ loc[p].kind = "edit"
        /\ Done(p, "upload_onedrive_file") # {}
        /\ Latest(snap[p].docs) = 2
        /\ RecName(2) \notin DOMAIN snap[p].mem
        /\ DOMAIN docs = {DocName(1), DocName(2), DocName(3)}
        /\ docs[DocName(1)] = snap[p].docs[DocName(1)]
        /\ docs[DocName(2)] = snap[p].docs[DocName(2)]
        /\ docs[DocName(3)] = loc[p].new_bytes

\* C27: two fills in flight together that computed the same next version and
\* had every storage call answered with success made four uploads, after which
\* the document under that version is the one either of them rendered and the
\* Memory record holds the merged context of either of them, not necessarily
\* the same one.
C27_DocumentAndRecordOfTwoFills ==
    \A p, q \in Procs :
        (/\ p # q
         /\ loc[p].kind = "fill" /\ loc[q].kind = "fill"
         /\ Finished(p) /\ Finished(q)
         /\ AllOk(p) /\ AllOk(q)
         /\ loc[p].existing_files = loc[q].existing_files) =>
            LET f == next_version_filename(ProjectName, loc[p].existing_files)
            IN  /\ \A r \in {p, q} :
                       /\ Done(r, "upload_onedrive_file") # {}
                       /\ Done(r, "upload_json_file") # {}
                       /\ loc[r].new_filename = f
                /\ f \in DOMAIN docs
                /\ docs[f] \in {loc[p].new_bytes, loc[q].new_bytes}
                /\ JsonName(f) \in DOMAIN mem
                /\ mem[JsonName(f)] \in {serialize_context(loc[p].merged_context),
                                         serialize_context(loc[q].merged_context)}

\* the highest version that has a Memory record, 0 for none
LatestRecord(m) ==
    LET numbers == {n \in 1..(MaxInit + MaxOps) : RecName(n) \in DOMAIN m}
    IN  IF numbers = {} THEN 0 ELSE CHOOSE n \in numbers : \A v \in numbers : v <= n

\* C28: in a sequential execution with operations failing at any storage call,
\* a fill that succeeds writes a Memory record for its version that contains
\* every key of the most recent Memory record written before it.
C28_ContextSurvivesFailures ==
    \A p \in Procs :
        (/\ Finished(p)
         /\ loc[p].kind = "fill"
         /\ AllOk(p)
         /\ LatestRecord(snap[p].mem) > 0) =>
            LET new == RecName(Latest(snap[p].docs) + 1)
                recent == RecName(LatestRecord(snap[p].mem))
            IN  /\ new \in DOMAIN mem
                /\ DOMAIN deserialize_context(snap[p].mem[recent])
                       \subseteq DOMAIN deserialize_context(mem[new])

\* C29: a request to a path other than /health reaches the application behind
\* the middleware only when its X-API-Key header equals the configured key, and
\* is otherwise answered with 401 without the application being called; a
\* request to /health always reaches its handler.
C29_ApiKeyGate ==
    calc.fn = "dispatch" =>
        /\ calc.path # "/health" =>
               /\ calc.out.call_next <=> calc.header = calc.api_key
               /\ ~calc.out.call_next =>
                      /\ calc.out.status_code = 401
                      /\ calc.handler = "not called"
        /\ calc.path = "/health" =>
               /\ calc.out.call_next
               /\ calc.handler = "/health"

\* /sse with a key that differs from the configured one only in case: 401
C29_Witness ==
    /\ calc.fn = "dispatch"
    /\ calc.path = "/sse"
    /\ calc.api_key = <<"k1">>
    /\ calc.header = <<"K1">>
    /\ calc.out = [call_next |-> FALSE, status_code |-> 401]
    /\ calc.handler = "not called"

=============================================================================
